---- MODULE Spec2Model ----
(***************************************************************************)
(* A model of zzz-fetcher: the character normalisation pipeline of         *)
(* src/src/index.ts (slugify, normalizeKeys, the skill level projector,    *)
(* simplifyCharacter), the post-fetch namer of src/unnamed/part_002, and   *)
(* the skip-existing batch loop main() of src/src/index.ts.                *)
(*                                                                         *)
(* Strings are sequences of one-character strings.  A JSON value is a      *)
(* record [t, n, d, s, e]: t is the type tag, n/d a number (d is 1 or 100),*)
(* s the characters of a string, e the ordered entries [k, v] of an object *)
(* (k the key) or of an array (k empty).                                   *)
(***************************************************************************)
EXTENDS Integers, Sequences, FiniteSets, TLC

VARIABLES
    key,            \* the character key of the index
    indexEntry,     \* characterIndex[key]
    detail,         \* the fetched detail record
    slug,           \* slugify(code name)
    indexName,      \* getIndexFileName(key, indexEntry)
    fileName,       \* getFileName(key, detail)
    stat,           \* one param-stat block
    levelValues,    \* buildLevelValues(stat)
    converted,      \* convertParamStat(stat)
    reconverted,    \* convertParamStat(converted)
    skill,          \* a skill structure holding stat under a "param" field
    transformed,    \* transformSkillParams(skill)
    retransformed,  \* transformSkillParams(transformed)
    value,          \* a nested JSON value
    normalized,     \* normalizeKeys(value)
    renormalized,   \* normalizeKeys(normalized)
    simplified,     \* simplifyCharacter(detail)
    ran,            \* the pure operations applied so far
    characterIndex, \* main: the fetched index, a sequence of [key, entry]
    files,          \* main: the names of the files under OUTPUT_DIR
    files0,         \* main: the files present when the run started
    pc,             \* main: the position of main()
    i,              \* main: the loop position in Object.keys(characterIndex)
    fetchedCount,   \* main: let fetchedCount
    skippedCount,   \* main: let skippedCount
    exitCode,       \* main: process.exitCode (0 while unset)
    thrown,         \* main: the I/O steps that threw, in order
    fetchLog,       \* main: the keys whose detail was requested, in order
    writeLog        \* main: the output names writeFile was called for, in order

nameVars == <<key, indexEntry, slug, indexName, fileName>>
statVars == <<stat, levelValues, converted, reconverted, skill, transformed, retransformed>>
normVars == <<value, normalized, renormalized>>
charVars == <<detail, simplified>>
mainVars == <<characterIndex, files, files0, pc, i, fetchedCount, skippedCount,
              exitCode, thrown, fetchLog, writeLog>>
vars == <<nameVars, statVars, normVars, charVars, ran, mainVars>>

-----------------------------------------------------------------------------
(* Characters and strings *)

LowerChars == <<"a","b","c","d","e","f","g","h","i","j","k","l","m",
                "n","o","p","q","r","s","t","u","v","w","x","y","z">>
UpperChars == <<"A","B","C","D","E","F","G","H","I","J","K","L","M",
                "N","O","P","Q","R","S","T","U","V","W","X","Y","Z">>
DigitChars == <<"0","1","2","3","4","5","6","7","8","9">>

IsLower(c) == \E j \in 1..Len(LowerChars) : LowerChars[j] = c
IsUpper(c) == \E j \in 1..Len(UpperChars) : UpperChars[j] = c
IsDigit(c) == \E j \in 1..Len(DigitChars) : DigitChars[j] = c
\* [a-zA-Z0-9]
IsAlnum(c) == IsLower(c) \/ IsUpper(c) \/ IsDigit(c)
\* [a-z0-9]
IsLowerAlnum(c) == IsLower(c) \/ IsDigit(c)
\* \s
IsSpace(c) == c \in {" ", "\t", "\n"}
\* what "." does not match
IsLineTerminator(c) == c = "\n"

ToLowerChar(c) ==
    IF IsUpper(c) THEN LowerChars[CHOOSE j \in 1..Len(UpperChars) : UpperChars[j] = c] ELSE c
ToUpperChar(c) ==
    IF IsLower(c) THEN UpperChars[CHOOSE j \in 1..Len(LowerChars) : LowerChars[j] = c] ELSE c

\* String.prototype.toLowerCase
toLowerCase(s) == [j \in 1..Len(s) |-> ToLowerChar(s[j])]

\* String.prototype.endsWith / startsWith / includes
endsWith(s, suffix) ==
    /\ Len(suffix) <= Len(s)
    /\ SubSeq(s, Len(s) - Len(suffix) + 1, Len(s)) = suffix
startsWith(s, prefix) ==
    /\ Len(prefix) <= Len(s)
    /\ SubSeq(s, 1, Len(prefix)) = prefix
includes(s, part) ==
    \E j \in 0..(Len(s) - Len(part)) : SubSeq(s, j + 1, j + Len(part)) = part

\* String.prototype.trim
trim(s) ==
    LET keep == {j \in 1..Len(s) : ~IsSpace(s[j])}
    IN  IF keep = {} THEN <<>>
        ELSE SubSeq(s, CHOOSE j \in keep : \A m \in keep : j <= m,
                       CHOOSE j \in keep : \A m \in keep : j >= m)

\* s.replace(/\s+/g, "")
DeleteWhitespace(s) == SelectSeq(s, LAMBDA c : ~IsSpace(c))

\* s.replace(/[^a-z0-9]+/g, "-"), scanning from index from
RECURSIVE HyphenateRuns(_, _)
HyphenateRuns(s, from) ==
    IF from > Len(s) THEN <<>>
    ELSE IF IsLowerAlnum(s[from]) THEN <<s[from]>> \o HyphenateRuns(s, from + 1)
    ELSE LET rest == {j \in (from + 1)..Len(s) : IsLowerAlnum(s[j])}
             next == IF rest = {} THEN Len(s) + 1
                     ELSE CHOOSE j \in rest : \A m \in rest : j <= m
         IN  <<"-">> \o HyphenateRuns(s, next)

\* s.replace(/(^-+|-+$)/g, "")
StripHyphens(s) ==
    LET keep == {j \in 1..Len(s) : s[j] # "-"}
    IN  IF keep = {} THEN <<>>
        ELSE SubSeq(s, CHOOSE j \in keep : \A m \in keep : j <= m,
                       CHOOSE j \in keep : \A m \in keep : j >= m)

\* slugify without the whitespace deletion: the words end up hyphenated.
slugifyHyphenateSpaces(name) ==
    StripHyphens(HyphenateRuns(toLowerCase(trim(name)), 1))

slugify(name) ==
    StripHyphens(HyphenateRuns(DeleteWhitespace(toLowerCase(trim(name))), 1))

-----------------------------------------------------------------------------
(* JSON values *)

Undefined == [t |-> "undefined", n |-> 0, d |-> 1, s |-> <<>>, e |-> <<>>]
Null      == [t |-> "null", n |-> 0, d |-> 1, s |-> <<>>, e |-> <<>>]
Bool(x)   == [t |-> "boolean", n |-> IF x THEN 1 ELSE 0, d |-> 1, s |-> <<>>, e |-> <<>>]
Num(x)    == [t |-> "number", n |-> x, d |-> 1, s |-> <<>>, e |-> <<>>]
Str(x)    == [t |-> "string", n |-> 0, d |-> 1, s |-> x, e |-> <<>>]
Obj(x)    == [t |-> "object", n |-> 0, d |-> 1, s |-> <<>>, e |-> x]
Arr(x)    == [t |-> "array", n |-> 0, d |-> 1, s |-> <<>>,
              e |-> [j \in 1..Len(x) |-> [k |-> <<>>, v |-> x[j]]]]
Entry(k, v) == [k |-> k, v |-> v]

\* typeof v === "number", typeof v === "string", Array.isArray(v)
IsNumber(v) == v.t = "number"
IsString(v) == v.t = "string"
IsArray(v)  == v.t = "array"
\* v && typeof v === "object" && !Array.isArray(v)
IsPlainObject(v) == v.t = "object"
\* !v
IsFalsy(v) ==
    \/ v.t \in {"undefined", "null"}
    \/ v.t = "boolean" /\ v.n = 0
    \/ v.t = "number" /\ v.n = 0
    \/ v.t = "string" /\ v.s = <<>>

HasKey(o, k) == \E j \in 1..Len(o.e) : o.e[j].k = k
\* o[k], undefined when the property is absent
Get(o, k) ==
    IF o.t = "object" /\ HasKey(o, k)
    THEN o.e[CHOOSE j \in 1..Len(o.e) : o.e[j].k = k].v
    ELSE Undefined

\* A canonical array index ("0", "7", "12"): such keys of an object come first,
\* in ascending numeric order, whatever the insertion order.
IsArrayIndex(k) ==
    /\ Len(k) >= 1
    /\ \A j \in 1..Len(k) : IsDigit(k[j])
    /\ Len(k) = 1 \/ k[1] # "0"
DigitValue(c) == (CHOOSE j \in 1..Len(DigitChars) : DigitChars[j] = c) - 1
RECURSIVE IndexValue(_)
IndexValue(k) ==
    IF k = <<>> THEN 0
    ELSE 10 * IndexValue(SubSeq(k, 1, Len(k) - 1)) + DigitValue(k[Len(k)])

\* entries[k] = v on the ordered entry list of an object: an existing property
\* keeps its place; a new array index goes in among the indices, any other new
\* key goes last.
SetEntry(entries, k, v) ==
    IF \E j \in 1..Len(entries) : entries[j].k = k
    THEN [j \in 1..Len(entries) |->
            IF entries[j].k = k THEN Entry(k, v) ELSE entries[j]]
    ELSE IF IsArrayIndex(k)
    THEN LET before == {j \in 1..Len(entries) :
                           /\ IsArrayIndex(entries[j].k)
                           /\ IndexValue(entries[j].k) < IndexValue(k)}
             b == Cardinality(before)
         IN  SubSeq(entries, 1, b) \o <<Entry(k, v)>> \o SubSeq(entries, b + 1, Len(entries))
    ELSE Append(entries, Entry(k, v))

\* The object a parser builds from the properties in their textual order.
RECURSIVE BuildEntries(_)
BuildEntries(pairs) ==
    IF pairs = <<>> THEN <<>>
    ELSE LET last == pairs[Len(pairs)]
         IN  SetEntry(BuildEntries(SubSeq(pairs, 1, Len(pairs) - 1)), last.k, last.v)
ObjOf(pairs) == Obj(BuildEntries(pairs))

\* The properties of pairs whose value is defined (JSON carries no undefined).
Present(pairs) == SelectSeq(pairs, LAMBDA p : p.v.t # "undefined")

-----------------------------------------------------------------------------
(* Output naming *)

\* src/src/index.ts getString
getString(v) == IF IsString(v) THEN v ELSE Undefined

\* a ?? b
Coalesce(a, b) == IF a.t \in {"undefined", "null"} THEN b ELSE a

\* getIndexFileName reading the CodeName spelling only.
getIndexFileNameCodeNameOnly(k, entry) ==
    LET code == getString(Get(entry, <<"C","o","d","e","N","a","m","e">>))
    IN  IF IsFalsy(code) THEN k
        ELSE IF Len(slugify(code.s)) > 0 THEN slugify(code.s) ELSE k

getIndexFileName(k, entry) ==
    LET code == getString(Coalesce(Get(entry, <<"C","o","d","e","N","a","m","e">>),
                                   Get(entry, <<"c","o","d","e">>)))
    IN  IF IsFalsy(code) THEN k
        ELSE IF Len(slugify(code.s)) > 0 THEN slugify(code.s) ELSE k

\* src/unnamed/part_002 getString, slugify and getFileName
getStringDetail(v) == IF IsString(v) THEN v ELSE Undefined

slugifyDetail(name) ==
    StripHyphens(HyphenateRuns(DeleteWhitespace(toLowerCase(trim(name))), 1))

getFileName(k, det) ==
    LET codeName == getStringDetail(Get(det, <<"C","o","d","e","N","a","m","e">>))
    IN  IF IsFalsy(codeName) THEN k
        ELSE IF Len(slugifyDetail(codeName.s)) > 0 THEN slugifyDetail(codeName.s) ELSE k

-----------------------------------------------------------------------------
(* The key normalizer *)

\* key.replace(/[^a-zA-Z0-9]+(.)/g, (_, chr) => chr.toUpperCase()), scanning from
\* index from.  At a character outside [a-zA-Z0-9] the run is taken as long as
\* it can be with one character, not a line terminator, left after it for (.).
RECURSIVE CamelReplace(_, _)
CamelReplace(s, from) ==
    IF from > Len(s) THEN <<>>
    ELSE IF IsAlnum(s[from]) THEN <<s[from]>> \o CamelReplace(s, from + 1)
    ELSE LET stops == {j \in (from + 1)..Len(s) : IsAlnum(s[j])}
             runEnd == IF stops = {} THEN Len(s)
                       ELSE CHOOSE j \in stops : \A m \in stops : j <= m
             chrs == {j \in (from + 1)..runEnd : ~IsLineTerminator(s[j])}
         IN  IF chrs = {} THEN <<s[from]>> \o CamelReplace(s, from + 1)
             ELSE LET chr == CHOOSE j \in chrs : \A m \in chrs : j >= m
                  IN  <<ToUpperChar(s[chr])>> \o CamelReplace(s, chr + 1)

\* s.replace(/^[A-Z]/, (chr) => chr.toLowerCase())
LowerFirst(s) ==
    IF Len(s) > 0 /\ IsUpper(s[1]) THEN <<ToLowerChar(s[1])>> \o Tail(s) ELSE s

\* toLowerCamelCase with its two replacements in the other order.
toLowerCamelCaseLowerFirst(k) == CamelReplace(LowerFirst(k), 1)

toLowerCamelCase(k) == LowerFirst(CamelReplace(k, 1))

StrIconMap == <<"I","c","o","n","M","a","p",":">>

\* value.replace(/<([^>]+)>/g, ...), scanning from index from: a tag is "<", one
\* or more characters other than ">", and ">"; it is kept when its content
\* starts with "IconMap:" and deleted otherwise.
RECURSIVE StripFrom(_, _)
StripFrom(s, from) ==
    IF from > Len(s) THEN <<>>
    ELSE LET closes == {j \in (from + 1)..Len(s) : s[j] = ">"}
             close == IF closes = {} THEN 0
                      ELSE CHOOSE j \in closes : \A m \in closes : j <= m
         IN  IF s[from] = "<" /\ close > from + 1
             THEN (IF startsWith(SubSeq(s, from + 1, close - 1), StrIconMap)
                   THEN SubSeq(s, from, close) ELSE <<>>)
                  \o StripFrom(s, close + 1)
             ELSE <<s[from]>> \o StripFrom(s, from + 1)

stripHtmlTags(s) == StripFrom(s, 1)

RECURSIVE normalizeKeys(_)
\* The loop of normalizeKeys over the first n entries of an object.
RECURSIVE NormalizedEntries(_, _)
NormalizedEntries(o, n) ==
    IF n = 0 THEN <<>>
    ELSE SetEntry(NormalizedEntries(o, n - 1),
                  toLowerCamelCase(o.e[n].k), normalizeKeys(o.e[n].v))

normalizeKeys(v) ==
    IF IsString(v) THEN Str(stripHtmlTags(v.s))
    ELSE IF IsArray(v)
    THEN [v EXCEPT !.e = [j \in 1..Len(v.e) |->
                             [k |-> <<>>, v |-> normalizeKeys(v.e[j].v)]]]
    ELSE IF IsPlainObject(v) THEN Obj(NormalizedEntries(v, Len(v.e)))
    ELSE v

-----------------------------------------------------------------------------
(* Numbers: n/d with d a power of 100, in lowest such terms *)

RECURSIVE Normalize(_, _)
Normalize(n, d) ==
    IF d > 1 /\ n % 100 = 0 THEN Normalize(n \div 100, d \div 100)
    ELSE [t |-> "number", n |-> n, d |-> d, s |-> <<>>, e |-> <<>>]
Max(a, b) == IF a >= b THEN a ELSE b
\* a + b
NumAdd(a, b) ==
    LET dd == Max(a.d, b.d)
    IN  Normalize(a.n * (dd \div a.d) + b.n * (dd \div b.d), dd)
\* c * a for an integer c
NumTimes(c, a) == Normalize(c * a.n, a.d)
\* a / 100
NumDiv100(a) == Normalize(a.n, a.d * 100)

\* Number.prototype.toString of a non-negative integer
RECURSIVE IntToString(_)
IntToString(n) ==
    IF n < 10 THEN <<DigitChars[n + 1]>>
    ELSE Append(IntToString(n \div 10), DigitChars[(n % 10) + 1])

-----------------------------------------------------------------------------
(* The skill level projector *)

TARGET_SKILL_LEVELS == <<12, 16>>

KeyGrowth == <<"G","r","o","w","t","h">>
KeyFormat == <<"f","o","r","m","a","t">>
KeyLevelValues == <<"l","e","v","e","l","V","a","l","u","e","s">>
KeyParam == <<"p","a","r","a","m">>
KeyMain == <<"m","a","i","n">>
StrPercentage == <<"p","e","r","c","e","n","t","a","g","e">>
StrRatio == <<"r","a","t","i","o">>

\* shouldNormalizeAsPercent comparing the key as written, not lowercased.
shouldNormalizeAsPercentCaseSensitive(k, format) ==
    LET formatString == IF IsString(format) THEN format.s ELSE <<>>
    IN  IF k = KeyMain /\ includes(formatString, <<"%">>) THEN TRUE
        ELSE includes(k, StrPercentage) \/ includes(k, StrRatio)

shouldNormalizeAsPercent(k, format) ==
    LET normalizedKey == toLowerCase(k)
        formatString == IF IsString(format) THEN format.s ELSE <<>>
    IN  IF normalizedKey = KeyMain /\ includes(formatString, <<"%">>) THEN TRUE
        ELSE includes(normalizedKey, StrPercentage) \/ includes(normalizedKey, StrRatio)

\* The inner loop of buildLevelValues over the first n entries of stat.
RECURSIVE LevelEntries(_, _, _)
LevelEntries(st, level, n) ==
    IF n = 0 THEN <<>>
    ELSE LET values == LevelEntries(st, level, n - 1)
             k == st.e[n].k
             entry == st.e[n].v
         IN  IF ~IsNumber(entry) \/ endsWith(k, KeyGrowth) THEN values
             ELSE LET growthKey == k \o KeyGrowth
                      growthValue == IF IsNumber(Get(st, growthKey))
                                     THEN Get(st, growthKey) ELSE Num(0)
                      raw == NumAdd(entry, NumTimes(level - 1, growthValue))
                  IN  SetEntry(values, k,
                               IF shouldNormalizeAsPercent(k, Get(st, KeyFormat))
                               THEN NumDiv100(raw) ELSE raw)

\* The outer loop of buildLevelValues over the first m target levels.
RECURSIVE LevelTable(_, _)
LevelTable(st, m) ==
    IF m = 0 THEN <<>>
    ELSE LET table == LevelTable(st, m - 1)
             level == TARGET_SKILL_LEVELS[m]
             values == LevelEntries(st, level, Len(st.e))
         IN  IF Len(values) > 0
             THEN SetEntry(table, IntToString(level), Obj(values))
             ELSE table

buildLevelValues(st) == Obj(LevelTable(st, Len(TARGET_SKILL_LEVELS)))

\* The metadata loop dropping every numeric field, the growth fields included.
RECURSIVE MetadataEntriesNoGrowth(_, _)
MetadataEntriesNoGrowth(st, n) ==
    IF n = 0 THEN <<>>
    ELSE LET metadata == MetadataEntriesNoGrowth(st, n - 1)
         IN  IF ~IsNumber(st.e[n].v)
             THEN SetEntry(metadata, st.e[n].k, st.e[n].v)
             ELSE metadata

\* The metadata loop of convertParamStat over the first n entries of stat.
RECURSIVE MetadataEntries(_, _)
MetadataEntries(st, n) ==
    IF n = 0 THEN <<>>
    ELSE LET metadata == MetadataEntries(st, n - 1)
         IN  IF ~IsNumber(st.e[n].v) \/ endsWith(st.e[n].k, KeyGrowth)
             THEN SetEntry(metadata, st.e[n].k, st.e[n].v)
             ELSE metadata

\* convertParamStat without the early return on a block that has its table.
convertParamStatAlways(st) ==
    LET table == buildLevelValues(st)
        metadata == MetadataEntries(st, Len(st.e))
    IN  IF Len(table.e) > 0
        THEN Obj(SetEntry(metadata, KeyLevelValues, table))
        ELSE Obj(metadata)

convertParamStat(st) ==
    IF ~IsFalsy(Get(st, KeyLevelValues)) /\ Get(st, KeyLevelValues).t \in {"object", "array"}
    THEN st
    ELSE LET table == buildLevelValues(st)
             metadata == MetadataEntries(st, Len(st.e))
         IN  IF Len(table.e) > 0
             THEN Obj(SetEntry(metadata, KeyLevelValues, table))
             ELSE Obj(metadata)

\* The loop over the children of an object-valued "param" field.
RECURSIVE ConvertedEntries(_, _)
ConvertedEntries(param, n) ==
    IF n = 0 THEN <<>>
    ELSE SetEntry(ConvertedEntries(param, n - 1), param.e[n].k,
                  IF IsPlainObject(param.e[n].v)
                  THEN convertParamStat(param.e[n].v)
                  ELSE param.e[n].v)

RECURSIVE transformSkillParams(_)
RECURSIVE TransformedEntries(_, _)
TransformedEntries(o, n) ==
    IF n = 0 THEN <<>>
    ELSE LET done == TransformedEntries(o, n - 1)
             k == o.e[n].k
             entry == o.e[n].v
         IN  IF k = KeyParam /\ IsPlainObject(entry)
             THEN SetEntry(done, k, Obj(ConvertedEntries(entry, Len(entry.e))))
             ELSE SetEntry(done, k, transformSkillParams(entry))

transformSkillParams(v) ==
    IF IsArray(v)
    THEN [v EXCEPT !.e = [j \in 1..Len(v.e) |->
                             [k |-> <<>>, v |-> transformSkillParams(v.e[j].v)]]]
    ELSE IF IsPlainObject(v) THEN Obj(TransformedEntries(v, Len(v.e)))
    ELSE v

-----------------------------------------------------------------------------
(* The record assembler *)

\* Object.values(v) and Object.entries(v): the properties of an object, the
\* elements of an array under their indices, the characters of a string.
ObjectEntries(v) ==
    IF IsPlainObject(v) THEN v.e
    ELSE IF IsArray(v) THEN [j \in 1..Len(v.e) |-> Entry(IntToString(j - 1), v.e[j].v)]
    ELSE IF IsString(v) THEN [j \in 1..Len(v.s) |-> Entry(IntToString(j - 1), Str(<<v.s[j]>>))]
    ELSE <<>>

pickFirstValue(v) ==
    IF IsFalsy(v) THEN Undefined
    ELSE LET defined == {j \in 1..Len(ObjectEntries(v)) : ObjectEntries(v)[j].v # Undefined}
         IN  IF defined = {} THEN Undefined
             ELSE ObjectEntries(v)[CHOOSE j \in defined : \A m \in defined : j <= m].v

\* The loop of simplifyStats over the first n entries.
RECURSIVE NumericEntries(_, _)
NumericEntries(entries, n) ==
    IF n = 0 THEN <<>>
    ELSE IF IsNumber(entries[n].v)
    THEN SetEntry(NumericEntries(entries, n - 1), entries[n].k, entries[n].v)
    ELSE NumericEntries(entries, n - 1)

\* simplifyStats dropping the growth-suffixed entries too.
simplifyStatsNoGrowth(stats) ==
    IF IsFalsy(stats) THEN Undefined
    ELSE LET kept == NumericEntries(
                        SelectSeq(ObjectEntries(stats),
                                  LAMBDA en : ~endsWith(en.k, <<"G","r","o","w","t","h">>)),
                        Len(SelectSeq(ObjectEntries(stats),
                                  LAMBDA en : ~endsWith(en.k, <<"G","r","o","w","t","h">>))))
         IN  IF Len(kept) > 0 THEN Obj(kept) ELSE Undefined

simplifyStats(stats) ==
    IF IsFalsy(stats) THEN Undefined
    ELSE LET kept == NumericEntries(ObjectEntries(stats), Len(ObjectEntries(stats)))
         IN  IF Len(kept) > 0 THEN Obj(kept) ELSE Undefined

formatRarity(v) ==
    IF v = Num(3) \/ v = Num(4)
    THEN (IF v = Num(3) THEN Str(<<"A">>) ELSE Str(<<"S">>))
    ELSE v

KeyId == <<"I","d">>
KeyNameField == <<"N","a","m","e">>
KeyRarity == <<"R","a","r","i","t","y">>
KeyWeaponType == <<"W","e","a","p","o","n","T","y","p","e">>
KeyElementType == <<"E","l","e","m","e","n","t","T","y","p","e">>
KeySpecialElementType == <<"S","p","e","c","i","a","l","E","l","e","m","e","n","t","T","y","p","e">>
KeyHitType == <<"H","i","t","T","y","p","e">>
KeyCamp == <<"C","a","m","p">>
KeyStats == <<"S","t","a","t","s">>
KeyCodeName == <<"C","o","d","e","N","a","m","e">>
KeySkill == <<"S","k","i","l","l">>
KeyPassive == <<"P","a","s","s","i","v","e">>
KeyTalent == <<"T","a","l","e","n","t">>
PassThroughKeys == <<
    <<"L","e","v","e","l">>,
    <<"E","x","t","r","a","L","e","v","e","l">>,
    <<"L","e","v","e","l","E","X","P">>,
    <<"S","k","i","l","l">>,
    <<"S","k","i","l","l","L","i","s","t">>,
    <<"P","a","s","s","i","v","e">>,
    <<"T","a","l","e","n","t">>,
    <<"F","a","i","r","y","R","e","c","o","m","m","e","n","d">>,
    <<"P","o","t","e","n","t","i","a","l">>,
    <<"P","o","t","e","n","t","i","a","l","D","e","t","a","i","l">>,
    <<"L","i","v","e","2","D">>>>

\* The allowlist loop of simplifyCharacter over the first n pass-through keys.
RECURSIVE WithPassThrough(_, _, _)
WithPassThrough(entries, det, n) ==
    IF n = 0 THEN entries
    ELSE LET done == WithPassThrough(entries, det, n - 1)
             entry == Get(det, PassThroughKeys[n])
         IN  IF entry # Undefined THEN SetEntry(done, PassThroughKeys[n], entry) ELSE done

\* const simplified = {...}; the properties are set even when undefined.
Assembled(det) ==
    LET head == <<
            Entry(KeyId, Get(det, KeyId)),
            Entry(KeyNameField, Get(det, KeyNameField)),
            Entry(KeyCodeName, Get(det, KeyCodeName)),
            Entry(KeyRarity, formatRarity(Get(det, KeyRarity))),
            Entry(KeyWeaponType, pickFirstValue(Get(det, KeyWeaponType))),
            Entry(KeyElementType, pickFirstValue(Get(det, KeyElementType))),
            Entry(KeySpecialElementType,
                  getString(Get(Get(det, KeySpecialElementType), KeyNameField))),
            Entry(KeyHitType, pickFirstValue(Get(det, KeyHitType))),
            Entry(KeyCamp, pickFirstValue(Get(det, KeyCamp)))>>
        stats == simplifyStats(Get(det, KeyStats))
        withStats == IF ~IsFalsy(stats) THEN SetEntry(head, KeyStats, stats) ELSE head
    IN  Obj(WithPassThrough(withStats, det, Len(PassThroughKeys)))

\* simplifyCharacter projecting the passive and talent blocks as well.
simplifyCharacterAllBlocks(det) ==
    LET norm == normalizeKeys(Assembled(det))
        Project(entries, k) ==
            IF ~IsFalsy(Get(Obj(entries), k))
            THEN SetEntry(entries, k, transformSkillParams(Get(Obj(entries), k)))
            ELSE entries
    IN  Obj(Project(Project(Project(norm.e, toLowerCase(KeySkill)),
                            toLowerCase(KeyPassive)), toLowerCase(KeyTalent)))

simplifyCharacter(det) ==
    LET norm == normalizeKeys(Assembled(det))
    IN  IF ~IsFalsy(Get(norm, toLowerCase(KeySkill)))
        THEN Obj(SetEntry(norm.e, toLowerCase(KeySkill),
                          transformSkillParams(Get(norm, toLowerCase(KeySkill)))))
        ELSE norm

-----------------------------------------------------------------------------
(* The inputs of the naming operations *)

MaxNameLen == 3

\* All strings over chars of length at most n.
RECURSIVE StringsUpTo(_, _)
StringsUpTo(chars, n) ==
    IF n = 0 THEN {<<>>}
    ELSE LET shorter == StringsUpTo(chars, n - 1)
         IN  shorter \cup {Append(s, c) : s \in shorter, c \in chars}

NameChars == {"a", "A", "1", " ", ":", "-"}
AliceTheGood == <<"A","l","i","c","e",":"," ","T","h","e"," ","G","o","o","d","!">>
ThreeSpaces == <<" "," "," ">>
CodeNames == StringsUpTo(NameChars, MaxNameLen) \cup {AliceTheGood, ThreeSpaces}
\* What the code-name field of one character may hold.
CodeValues == {Str(s) : s \in CodeNames} \cup {Undefined, Null, Num(5)}
CharacterKeys == {<<"1","0","1","1">>, <<"k">>}

KeyCode == <<"c","o","d","e">>

\* The index entry of a character whose code name is cv: the index carries the
\* code name as CodeName, as code, or as code beside a null CodeName.
IndexEntryOf(spelling, cv) ==
    CASE spelling = "CodeName" -> ObjOf(Present(<<Entry(KeyCodeName, cv)>>))
      [] spelling = "code" -> ObjOf(Present(<<Entry(KeyCode, cv)>>))
      [] OTHER -> ObjOf(Present(<<Entry(KeyCodeName, Null), Entry(KeyCode, cv)>>))
\* The detail record of the same character.
DetailOf(cv) == ObjOf(Present(<<Entry(KeyCodeName, cv)>>))

\* The values the variables of the other specifications rest at.
IdleName == /\ key = <<>> /\ indexEntry = Undefined
            /\ slug = <<>> /\ indexName = <<>> /\ fileName = <<>>
IdleStat == /\ stat = Undefined /\ levelValues = Undefined /\ converted = Undefined
            /\ reconverted = Undefined /\ skill = Undefined
            /\ transformed = Undefined /\ retransformed = Undefined
IdleNorm == value = Undefined /\ normalized = Undefined /\ renormalized = Undefined
IdleChar == detail = Undefined /\ simplified = Undefined
IdleMain == /\ characterIndex = <<>> /\ files = {} /\ files0 = {} /\ pc = "idle"
            /\ i = 0 /\ fetchedCount = 0 /\ skippedCount = 0 /\ exitCode = 0
            /\ thrown = <<>> /\ fetchLog = <<>> /\ writeLog = <<>>

InitName ==
    /\ key \in CharacterKeys
    /\ \E cv \in CodeValues :
          /\ indexEntry \in {IndexEntryOf(sp, cv) : sp \in {"CodeName", "code", "both"}}
          /\ detail = DetailOf(cv)
    /\ slug = <<>> /\ indexName = <<>> /\ fileName = <<>>
    /\ simplified = Undefined
    /\ ran = {}
    /\ IdleStat /\ IdleNorm /\ IdleMain

\* slugify(detail.CodeName) on a string code name
DoSlugify ==
    /\ "slugify" \notin ran
    /\ IsString(Get(detail, KeyCodeName))
    /\ slug' = slugify(Get(detail, KeyCodeName).s)
    /\ ran' = ran \cup {"slugify"}
    /\ UNCHANGED <<key, indexEntry, indexName, fileName, statVars, normVars, charVars, mainVars>>

\* const outputName = getIndexFileName(key, indexEntry ?? {})
DoGetIndexFileName ==
    /\ "getIndexFileName" \notin ran
    /\ indexName' = getIndexFileName(key, indexEntry)
    /\ ran' = ran \cup {"getIndexFileName"}
    /\ UNCHANGED <<key, indexEntry, slug, fileName, statVars, normVars, charVars, mainVars>>

\* getFileName(key, detail)
DoGetFileName ==
    /\ "getFileName" \notin ran
    /\ fileName' = getFileName(key, detail)
    /\ ran' = ran \cup {"getFileName"}
    /\ UNCHANGED <<key, indexEntry, slug, indexName, statVars, normVars, charVars, mainVars>>

NextName == DoSlugify \/ DoGetIndexFileName \/ DoGetFileName

SpecName == InitName /\ [][NextName]_vars

CodeNameOf(det) == Get(det, KeyCodeName)
Slugged == "slugify" \in ran

\* C1 as stated: slugify("Alice: The Good!") = "alice-the-good".
C1_AsStated ==
    (Slugged /\ CodeNameOf(detail) = Str(AliceTheGood))
        => slug = <<"a","l","i","c","e","-","t","h","e","-","g","o","o","d">>

\* C1, amended: the slug holds only [a-z0-9] and hyphens, no hyphen at either
\* end and no two in a row; its letters and digits are those of the name,
\* lowercased and in order; whitespace is deleted before the hyphens are placed,
\* so slugify("Alice: The Good!") = "alice-thegood"; a whitespace-only name gives
\* the empty slug and getIndexFileName then returns the raw key.
C1_Slugify ==
    Slugged =>
        LET name == CodeNameOf(detail).s IN
        /\ \A j \in 1..Len(slug) : IsLowerAlnum(slug[j]) \/ slug[j] = "-"
        /\ slug # <<>> => slug[1] # "-" /\ slug[Len(slug)] # "-"
        /\ \A j \in 1..(Len(slug) - 1) : ~(slug[j] = "-" /\ slug[j + 1] = "-")
        /\ SelectSeq(slug, IsLowerAlnum) = SelectSeq(toLowerCase(name), IsLowerAlnum)
        /\ (\A j \in 1..Len(name) : IsAlnum(name[j]) \/ IsSpace(name[j]))
              => \A j \in 1..Len(slug) : slug[j] # "-"
        /\ name = AliceTheGood
              => slug = <<"a","l","i","c","e","-","t","h","e","g","o","o","d">>
        /\ (\A j \in 1..Len(name) : IsSpace(name[j]))
              => /\ slug = <<>>
                 /\ "getIndexFileName" \in ran => indexName = key

C1_Witness ==
    /\ Slugged /\ "getIndexFileName" \in ran
    /\ CodeNameOf(detail) = Str(AliceTheGood)
    /\ slug = <<"a","l","i","c","e","-","t","h","e","g","o","o","d">>
    /\ indexName = slug

\* C7: the pre-fetch name and the post-fetch name of one character agree.
C7_NamesAgree ==
    {"getIndexFileName", "getFileName"} \subseteq ran => indexName = fileName

C7_Witness ==
    /\ {"getIndexFileName", "getFileName"} \subseteq ran
    /\ CodeNameOf(detail) = Str(<<"A", ":", "1">>)
    /\ Get(indexEntry, KeyCode) = Str(<<"A", ":", "1">>)
    /\ indexName = <<"a", "-", "1">> /\ fileName = <<"a", "-", "1">>

-----------------------------------------------------------------------------
(* The inputs of the level projector *)

MaxStatValue == 1

KeyMainGrowth == KeyMain \o KeyGrowth
KeyHpPercentage == <<"h","p","P","e","r","c","e","n","t","a","g","e">>
KeyHpPercentageGrowth == KeyHpPercentage \o KeyGrowth
KeyDmgRatio == <<"d","m","g","R","a","t","i","o">>
KeyName == <<"n","a","m","e">>
Key12 == <<"1","2">>
Key16 == <<"1","6">>

StatBases == {Num(100 * j) : j \in 1..MaxStatValue}
StatGrowths == {Num(10 * j) : j \in 0..MaxStatValue}
\* A per-level table as the projector leaves it.
OldTable == ObjOf(<<Entry(Key12, ObjOf(<<Entry(KeyMain, Num(7))>>))>>)

StatBlocks ==
    {ObjOf(Present(<<Entry(KeyName, nm), Entry(KeyMain, a), Entry(KeyMainGrowth, ag),
                     Entry(KeyHpPercentage, b), Entry(KeyHpPercentageGrowth, bg),
                     Entry(KeyDmgRatio, c), Entry(KeyFormat, f),
                     Entry(KeyLevelValues, lv)>>)) :
        nm \in {Undefined, Str(<<"x">>)},
        a \in StatBases \cup {Undefined, Str(<<"x">>)},
        ag \in StatGrowths \cup {Undefined, Str(<<"x">>)},
        b \in StatBases \cup {Undefined},
        bg \in {Num(10), Undefined},
        c \in {Num(50), Undefined},
        f \in {Undefined, Str(<<>>), Str(<<"1", "%">>), Num(1)},
        lv \in {Undefined, Null, Num(5), Str(<<"x">>), Obj(<<>>), Arr(<<>>), OldTable}}

\* A skill structure holding st below "param" fields: directly, below nested
\* objects and arrays, inside an array-valued "param", and inside a child of a
\* "param" object.
SkillOf(st) ==
    ObjOf(<<
        Entry(KeyParam, ObjOf(<<
            Entry(<<"a">>, st),
            Entry(<<"n">>, Num(1)),
            Entry(<<"d">>, ObjOf(<<Entry(<<"s","u","b">>,
                                        ObjOf(<<Entry(KeyParam, ObjOf(<<Entry(<<"b">>, st)>>))>>))>>))>>)),
        Entry(<<"b","a","s","i","c">>, ObjOf(<<
            Entry(<<"d","e","s","c">>,
                  Arr(<<ObjOf(<<Entry(KeyParam, ObjOf(<<Entry(<<"c">>, st)>>))>>)>>))>>)),
        Entry(<<"l","i","s","t">>, ObjOf(<<Entry(KeyParam, Arr(<<st>>))>>))>>)

InitStat ==
    /\ stat \in StatBlocks
    /\ skill = SkillOf(stat)
    /\ levelValues = Undefined /\ converted = Undefined /\ reconverted = Undefined
    /\ transformed = Undefined /\ retransformed = Undefined
    /\ ran = {}
    /\ IdleName /\ IdleNorm /\ IdleChar /\ IdleMain

\* const levelValues = buildLevelValues(stat)
DoBuildLevelValues ==
    /\ ran = {}
    /\ levelValues' = buildLevelValues(stat)
    /\ ran' = {"buildLevelValues"}
    /\ UNCHANGED <<stat, converted, reconverted, skill, transformed, retransformed,
                   nameVars, normVars, charVars, mainVars>>

\* convertParamStat(stat)
DoConvertParamStat ==
    /\ ran = {"buildLevelValues"}
    /\ converted' = convertParamStat(stat)
    /\ ran' = ran \cup {"convertParamStat"}
    /\ UNCHANGED <<stat, levelValues, reconverted, skill, transformed, retransformed,
                   nameVars, normVars, charVars, mainVars>>

\* convertParamStat applied to its own result
DoConvertParamStatAgain ==
    /\ "convertParamStat" \in ran /\ "convertParamStatAgain" \notin ran
    /\ reconverted' = convertParamStat(converted)
    /\ ran' = ran \cup {"convertParamStatAgain"}
    /\ UNCHANGED <<stat, levelValues, converted, skill, transformed, retransformed,
                   nameVars, normVars, charVars, mainVars>>

\* transformSkillParams(skill)
DoTransformSkillParams ==
    /\ "convertParamStatAgain" \in ran /\ "transformSkillParams" \notin ran
    /\ transformed' = transformSkillParams(skill)
    /\ ran' = ran \cup {"transformSkillParams"}
    /\ UNCHANGED <<stat, levelValues, converted, reconverted, skill, retransformed,
                   nameVars, normVars, charVars, mainVars>>

\* transformSkillParams applied to its own result
DoTransformSkillParamsAgain ==
    /\ "transformSkillParams" \in ran /\ "transformSkillParamsAgain" \notin ran
    /\ retransformed' = transformSkillParams(transformed)
    /\ ran' = ran \cup {"transformSkillParamsAgain"}
    /\ UNCHANGED <<stat, levelValues, converted, reconverted, skill, transformed,
                   nameVars, normVars, charVars, mainVars>>

NextStat ==
    \/ DoBuildLevelValues
    \/ DoConvertParamStat
    \/ DoConvertParamStatAgain
    \/ DoTransformSkillParams
    \/ DoTransformSkillParamsAgain

SpecStat == InitStat /\ [][NextStat]_vars

\* The block passes the early return of convertParamStat.
HasLevelTable(st) ==
    Get(st, KeyLevelValues).t \in {"object", "array"}
IsGrowthKey(k) == endsWith(k, KeyGrowth)

\* C3 as stated: without a per-level table, no numeric field of the block
\* (base or growth) is left at the top level of the result.
C3_AsStated ==
    ("convertParamStat" \in ran /\ ~HasLevelTable(stat)) =>
        \A j \in 1..Len(stat.e) :
            IsNumber(stat.e[j].v) => ~IsNumber(Get(converted, stat.e[j].k))

\* C3, amended: without a per-level table the result keeps every non-numeric
\* field and every field whose key ends in "Growth" (numeric or not), drops every
\* numeric field whose key does not end in "Growth", and holds the levelValues
\* table exactly when such a numeric field exists.
C3_ConvertDropsBase ==
    ("convertParamStat" \in ran /\ ~HasLevelTable(stat)) =>
        LET projected == {j \in 1..Len(stat.e) :
                             IsNumber(stat.e[j].v) /\ ~IsGrowthKey(stat.e[j].k)}
        IN  /\ \A j \in 1..Len(stat.e) :
                  LET k == stat.e[j].k IN
                  IF j \in projected
                  THEN k # KeyLevelValues => ~HasKey(converted, k)
                  ELSE (k # KeyLevelValues \/ projected = {})
                          => HasKey(converted, k) /\ Get(converted, k) = stat.e[j].v
            /\ \A j \in 1..Len(converted.e) :
                  converted.e[j].k = KeyLevelValues \/ HasKey(stat, converted.e[j].k)
            /\ projected # {} <=> Get(converted, KeyLevelValues) = levelValues
            /\ projected = {} => Get(converted, KeyLevelValues) = Get(stat, KeyLevelValues)

C3_Witness ==
    /\ "convertParamStat" \in ran /\ ~HasLevelTable(stat)
    /\ Get(stat, KeyMain) = Num(100) /\ Get(stat, KeyMainGrowth) = Num(10)
    /\ Get(stat, KeyName) = Str(<<"x">>)
    /\ ~HasKey(converted, KeyMain)
    /\ Get(converted, KeyMainGrowth) = Num(10)
    /\ Get(converted, KeyName) = Str(<<"x">>)
    /\ Get(Get(Get(converted, KeyLevelValues), Key12), KeyMain) = Num(210)

\* C4: at each milestone level L the table holds, for every numeric field k whose
\* key does not end in "Growth", base + (L - 1) * growth, divided by 100 exactly
\* when k is "main" (in any case) under a format holding "%", or k holds
\* "percentage" or "ratio" (in any case); growth fields and non-numeric fields
\* are not in the table.
C4_LevelValues ==
    "buildLevelValues" \in ran =>
        \A m \in 1..Len(TARGET_SKILL_LEVELS) :
            LET level == TARGET_SKILL_LEVELS[m]
                values == Get(levelValues, IntToString(level))
                format == Get(stat, KeyFormat)
            IN  \A j \in 1..Len(stat.e) :
                    LET k == stat.e[j].k
                        base == stat.e[j].v
                        g == Get(stat, k \o KeyGrowth)
                        growth == IF IsNumber(g) THEN g.n ELSE 0
                        percent ==
                            \/ /\ toLowerCase(k) = KeyMain
                               /\ IsString(format)
                               /\ \E q \in 1..Len(format.s) : format.s[q] = "%"
                            \/ includes(toLowerCase(k), StrPercentage)
                            \/ includes(toLowerCase(k), StrRatio)
                        stored == Get(values, k)
                    IN  IF IsNumber(base) /\ ~IsGrowthKey(k)
                        THEN /\ IsNumber(stored)
                             /\ IF percent
                                THEN stored.n * 100 = (base.n + (level - 1) * growth) * stored.d
                                ELSE stored.n = base.n + (level - 1) * growth /\ stored.d = 1
                        ELSE stored = Undefined

C4_Witness ==
    /\ "buildLevelValues" \in ran
    /\ Get(stat, KeyMain) = Num(100) /\ Get(stat, KeyMainGrowth) = Num(10)
    /\ Get(stat, KeyFormat) = Str(<<>>)
    /\ Get(stat, KeyHpPercentage) = Num(100) /\ Get(stat, KeyHpPercentageGrowth) = Num(10)
    /\ Get(Get(levelValues, Key12), KeyMain) = Num(210)
    /\ Get(Get(levelValues, Key16), KeyMain) = Num(250)
    /\ Get(Get(levelValues, Key12), KeyHpPercentage) = [Num(210) EXCEPT !.d = 100]
    /\ Get(Get(levelValues, Key16), KeyHpPercentage) = [Num(250) EXCEPT !.d = 100]

\* C5 as stated: a block holding the key levelValues, whatever its value, is
\* returned unchanged.
C5_AsStated ==
    ("convertParamStat" \in ran /\ HasKey(stat, KeyLevelValues)) => converted = stat

\* C5, amended: a block whose levelValues is an object or an array (not null) is
\* returned unchanged; and on every block convertParamStat, and on every
\* structure transformSkillParams, applied twice gives what it gives once.
C5_Idempotent ==
    /\ ("convertParamStat" \in ran /\ HasLevelTable(stat)) => converted = stat
    /\ "convertParamStatAgain" \in ran => reconverted = converted
    /\ "transformSkillParamsAgain" \in ran => retransformed = transformed

C5_Witness ==
    /\ "transformSkillParamsAgain" \in ran
    /\ Get(stat, KeyMain) = Num(100) /\ Get(stat, KeyMainGrowth) = Num(10)
    /\ Get(stat, KeyLevelValues) = OldTable
    /\ converted = stat
    /\ reconverted = converted
    /\ retransformed = transformed

-----------------------------------------------------------------------------
(* The inputs of the key normalizer *)

MaxKeyLen == 3
MaxTextLen == 3

KeyChars == {"a", "B", "_", "1", "\n"}
RawKeys == StringsUpTo(KeyChars, MaxKeyLen)
TextChars == {"<", ">", "b"}
PlainTexts == StringsUpTo(TextChars, MaxTextLen)
\* Texts around an icon tag: before it, inside it after the marker, after it.
IconTexts ==
    {p \o <<"<">> \o StrIconMap \o m \o <<">">> \o q :
        p \in StringsUpTo(TextChars, 1), m \in StringsUpTo(TextChars, 1),
        q \in StringsUpTo(TextChars, MaxTextLen)}
Texts == PlainTexts \cup IconTexts

\* Strings, scalars, one-property objects, and objects and arrays nesting them;
\* the two-property objects hold keys that normalise to one key.
NormLeaves == {Str(s) : s \in Texts} \cup {Num(3), Null, Bool(TRUE)}
NormObjects ==
    {ObjOf(<<Entry(k, Str(<<"<", "b", ">", "b">>))>>) : k \in RawKeys}
NormPairs ==
    {ObjOf(<<Entry(ks[1], Num(1)), Entry(ks[2], Str(<<"<", ">", "b">>))>>) :
        ks \in {q \in {<<"a", "_", "b">>, <<"1">>, <<"B">>} \X {k \in RawKeys : Len(k) <= 2} :
                   q[1] # q[2]}}
NormNested ==
    {ObjOf(<<Entry(<<"A", "_", "b">>, Arr(<<x, ObjOf(<<Entry(<<"_", "a">>, x)>>)>>))>>) :
        x \in {Str(s) : s \in IconTexts} \cup NormPairs}
NormValues == NormLeaves \cup NormObjects \cup NormPairs \cup NormNested

InitNorm ==
    /\ value \in NormValues
    /\ normalized = Undefined /\ renormalized = Undefined
    /\ ran = {}
    /\ IdleName /\ IdleStat /\ IdleChar /\ IdleMain

\* normalizeKeys(value)
DoNormalizeKeys ==
    /\ ran = {}
    /\ normalized' = normalizeKeys(value)
    /\ ran' = {"normalizeKeys"}
    /\ UNCHANGED <<value, renormalized, nameVars, statVars, charVars, mainVars>>

\* normalizeKeys applied to its own result
DoNormalizeKeysAgain ==
    /\ ran = {"normalizeKeys"}
    /\ renormalized' = normalizeKeys(normalized)
    /\ ran' = ran \cup {"normalizeKeysAgain"}
    /\ UNCHANGED <<value, normalized, nameVars, statVars, charVars, mainVars>>

NextNorm == DoNormalizeKeys \/ DoNormalizeKeysAgain

SpecNorm == InitNorm /\ [][NextNorm]_vars

\* C6: normalizeKeys(normalizeKeys(v)) = normalizeKeys(v).
C6_Idempotent ==
    "normalizeKeysAgain" \in ran => renormalized = normalized

\* A string leaf whose tags were stripped with its icon tag kept, below keys that
\* were rewritten, normalised a second time.
C6_Witness ==
    /\ "normalizeKeysAgain" \in ran
    /\ value = ObjOf(<<Entry(<<"A", "_", "b">>,
                 Arr(<<Str(<<"<">> \o StrIconMap \o <<"b", ">", "<", "b", ">">>),
                       ObjOf(<<Entry(<<"_", "a">>,
                           Str(<<"<">> \o StrIconMap \o <<"b", ">", "<", "b", ">">>))>>)>>))>>)
    /\ normalized = ObjOf(<<Entry(<<"a", "B">>,
                 Arr(<<Str(<<"<">> \o StrIconMap \o <<"b", ">">>),
                       ObjOf(<<Entry(<<"a">>,
                           Str(<<"<">> \o StrIconMap \o <<"b", ">">>))>>)>>))>>)
    /\ renormalized = normalized

-----------------------------------------------------------------------------
(* The inputs of the record assembler *)

MaxDepth == 1

KeyHP == <<"H","P">>
KeyHPGrowth == KeyHP \o KeyGrowth
KeyNote == <<"N","o","t","e">>
KeyRawParam == <<"P","a","r","a","m">>
KeyRawMain == <<"M","a","i","n">>
KeyRawFormat == <<"F","o","r","m","a","t">>
KeyRawLevelValues == <<"L","e","v","e","l","V","a","l","u","e","s">>
KeySub == <<"S","u","b">>

RawStats ==
    {ObjOf(Present(<<Entry(KeyHP, hp), Entry(KeyHPGrowth, g), Entry(KeyNote, nt)>>)) :
        hp \in StatBases \cup {Undefined},
        g \in {Num(5), Undefined},
        nt \in {Str(<<"x">>), Undefined}} \cup {Undefined}

\* Raw param-stat blocks: base with growth and a percent format, metadata only,
\* and a block that already carries a per-level table.
RawParamStats == {
    ObjOf(<<Entry(KeyRawMain, Num(100)), Entry(KeyRawMain \o KeyGrowth, Num(10)),
            Entry(KeyRawFormat, Str(<<"1", "%">>))>>),
    ObjOf(<<Entry(KeyNameField, Str(<<"<", "b", ">", "x">>))>>),
    ObjOf(<<Entry(KeyRawMain, Num(100)),
            Entry(KeyRawLevelValues, ObjOf(<<Entry(Key12, ObjOf(<<Entry(KeyRawMain, Num(7))>>))>>))>>)}

\* A "Param" object, an array-valued "Param", and a "Param" below a child of a
\* "Param" object.
ParamHolders ==
    UNION {{ObjOf(<<Entry(KeyRawParam, ObjOf(<<Entry(<<"A">>, st), Entry(<<"N">>, Num(1))>>))>>),
            ObjOf(<<Entry(KeyRawParam, Arr(<<st>>))>>),
            ObjOf(<<Entry(KeyRawParam, ObjOf(<<Entry(<<"A">>, ObjOf(<<
                Entry(KeyNameField, Str(<<"x">>)),
                Entry(KeySub, ObjOf(<<Entry(KeyRawParam,
                                           ObjOf(<<Entry(<<"B">>, st)>>))>>))>>))>>))>>)} :
           st \in RawParamStats}

\* The holders below at most n layers of objects and arrays.
RECURSIVE Nested(_)
Nested(n) ==
    IF n = 0 THEN ParamHolders
    ELSE LET inner == Nested(n - 1)
         IN  inner \cup {ObjOf(<<Entry(KeySub, x)>>) : x \in inner} \cup {Arr(<<x>>) : x \in inner}

SkillTrees == Nested(MaxDepth) \cup {Undefined}
\* The passive and talent blocks: absent, or a holder of the first raw block.
SideTrees ==
    {Undefined,
     ObjOf(<<Entry(KeyRawParam, ObjOf(<<Entry(<<"A">>,
        ObjOf(<<Entry(KeyRawMain, Num(100)), Entry(KeyRawMain \o KeyGrowth, Num(10))>>))>>))>>)}

InitChar ==
    /\ \E st \in RawStats, sk \in SkillTrees, pa \in SideTrees, ta \in SideTrees,
          ra \in {Num(4), Num(5)} :
          detail = ObjOf(Present(<<
              Entry(KeyId, Num(1011)),
              Entry(KeyCodeName, Str(<<"A">>)),
              Entry(KeyRarity, ra),
              Entry(KeyWeaponType, ObjOf(<<Entry(<<"j", "a">>, Str(<<"S">>))>>)),
              Entry(KeyStats, st),
              Entry(KeySkill, sk),
              Entry(KeyPassive, pa),
              Entry(KeyTalent, ta)>>))
    /\ simplified = Undefined
    /\ ran = {}
    /\ IdleName /\ IdleStat /\ IdleNorm /\ IdleMain

\* const simplified = simplifyCharacter(detail)
DoSimplifyCharacter ==
    /\ ran = {}
    /\ simplified' = simplifyCharacter(detail)
    /\ ran' = {"simplifyCharacter"}
    /\ UNCHANGED <<detail, nameVars, statVars, normVars, mainVars>>

\* JSON.stringify(data, null, 2) and back: what the written file holds, the
\* undefined properties left out.
RECURSIVE Serialized(_)
Serialized(v) ==
    IF IsArray(v)
    THEN [v EXCEPT !.e = [j \in 1..Len(v.e) |->
            [k |-> <<>>, v |-> IF v.e[j].v = Undefined THEN Null ELSE Serialized(v.e[j].v)]]]
    ELSE IF IsPlainObject(v)
    THEN LET kept == SelectSeq(v.e, LAMBDA en : en.v # Undefined)
         IN  Obj([j \in 1..Len(kept) |-> Entry(kept[j].k, Serialized(kept[j].v))])
    ELSE v

\* saveSimplified's file content, read back
DoSerialize ==
    /\ ran = {"simplifyCharacter"}
    /\ simplified' = Serialized(simplified)
    /\ ran' = ran \cup {"stringify"}
    /\ UNCHANGED <<detail, nameVars, statVars, normVars, mainVars>>

NextChar == DoSimplifyCharacter \/ DoSerialize

SpecChar == InitChar /\ [][NextChar]_vars

Simplified == "simplifyCharacter" \in ran
KeyStatsOut == <<"s","t","a","t","s">>
KeySkillOut == <<"s","k","i","l","l">>
KeyPassiveOut == <<"p","a","s","s","i","v","e">>
KeyTalentOut == <<"t","a","l","e","n","t">>

\* C2 as stated: the non-numeric and the growth-suffixed entries of the raw Stats
\* are absent from the stats block.
C2_AsStated ==
    Simplified =>
        \A j \in 1..Len(Get(detail, KeyStats).e) :
            LET en == Get(detail, KeyStats).e[j] IN
            (~IsNumber(en.v) \/ IsGrowthKey(en.k))
                => ~HasKey(Get(simplified, KeyStatsOut), toLowerCamelCase(en.k))

\* C2, amended: the stats block holds exactly the numeric entries of the raw Stats,
\* the growth-suffixed ones included, under their lower-camel-case keys; the
\* non-numeric entries are absent; the block is left out when no entry is
\* numeric.  Stats {HP: 100, HPGrowth: 5, Note: "x"} gives {hP: 100, hPGrowth: 5}.
C2_StatsNumeric ==
    Simplified =>
        LET raw == Get(detail, KeyStats)
            out == Get(simplified, KeyStatsOut)
            numeric == {j \in 1..Len(raw.e) : IsNumber(raw.e[j].v)}
        IN  /\ \A j \in 1..Len(raw.e) :
                  IF j \in numeric
                  THEN Get(out, toLowerCamelCase(raw.e[j].k)) = raw.e[j].v
                  ELSE ~HasKey(out, toLowerCamelCase(raw.e[j].k))
            /\ Len(out.e) = Cardinality(numeric)
            /\ numeric = {} => ~HasKey(simplified, KeyStatsOut)
            /\ raw = ObjOf(<<Entry(KeyHP, Num(100)), Entry(KeyHPGrowth, Num(5)),
                             Entry(KeyNote, Str(<<"x">>))>>)
                  => out = ObjOf(<<Entry(<<"h", "P">>, Num(100)),
                                   Entry(<<"h","P","G","r","o","w","t","h">>, Num(5))>>)

C2_Witness ==
    /\ Simplified
    /\ Get(detail, KeyStats) = ObjOf(<<Entry(KeyHP, Num(100)), Entry(KeyHPGrowth, Num(5)),
                                      Entry(KeyNote, Str(<<"x">>))>>)
    /\ Get(Get(simplified, KeyStatsOut), <<"h","P","G","r","o","w","t","h">>) = Num(5)
    /\ ~HasKey(Get(simplified, KeyStatsOut), <<"n","o","t","e">>)

\* A param child that went through the projector: it carries a per-level table,
\* or no numeric field other than growth fields.
Projected(child) ==
    \/ HasLevelTable(child)
    \/ \A j \in 1..Len(child.e) : IsNumber(child.e[j].v) => IsGrowthKey(child.e[j].k)

\* Every object-valued child of every object-valued "param" field of v went
\* through the projector; with inside, also those below the children of a
\* "param" object.
RECURSIVE ParamsProjected(_, _)
ParamsProjected(v, inside) ==
    IF v.t \notin {"object", "array"} THEN TRUE
    ELSE \A j \in 1..Len(v.e) :
            LET entry == v.e[j].v IN
            IF v.t = "object" /\ v.e[j].k = KeyParam /\ IsPlainObject(entry)
            THEN \A c \in 1..Len(entry.e) :
                    IsPlainObject(entry.e[c].v) =>
                        /\ Projected(entry.e[c].v)
                        /\ inside => ParamsProjected(entry.e[c].v, inside)
            ELSE ParamsProjected(entry, inside)

\* C9 as stated: in the skill, passive and talent blocks, at any depth.
C9_AsStated ==
    Simplified =>
        /\ ParamsProjected(Get(simplified, KeySkillOut), TRUE)
        /\ ParamsProjected(Get(simplified, KeyPassiveOut), TRUE)
        /\ ParamsProjected(Get(simplified, KeyTalentOut), TRUE)

\* C9, amended: the projector is applied to every object-valued child of every
\* object-valued "param" field of the skill block that is not below a child of
\* another "param" object; the passive and talent blocks are key-normalised only.
C9_SkillProjected ==
    Simplified =>
        /\ ParamsProjected(Get(simplified, KeySkillOut), FALSE)
        /\ Get(simplified, KeyPassiveOut) = normalizeKeys(Get(detail, KeyPassive))
        /\ Get(simplified, KeyTalentOut) = normalizeKeys(Get(detail, KeyTalent))

C9_Witness ==
    /\ Simplified
    /\ Get(detail, KeySkill) =
          Arr(<<ObjOf(<<Entry(KeyRawParam, ObjOf(<<
              Entry(<<"A">>, ObjOf(<<Entry(KeyRawMain, Num(100)),
                                     Entry(KeyRawMain \o KeyGrowth, Num(10)),
                                     Entry(KeyRawFormat, Str(<<"1", "%">>))>>)),
              Entry(<<"N">>, Num(1))>>))>>)>>)
    /\ Get(simplified, KeySkillOut) =
          Arr(<<ObjOf(<<Entry(KeyParam, ObjOf(<<
              Entry(<<"a">>, ObjOf(<<
                  Entry(KeyMainGrowth, Num(10)),
                  Entry(KeyFormat, Str(<<"1", "%">>)),
                  Entry(KeyLevelValues, ObjOf(<<
                      Entry(Key12, ObjOf(<<Entry(KeyMain, [Num(210) EXCEPT !.d = 100])>>)),
                      Entry(Key16, ObjOf(<<Entry(KeyMain, [Num(250) EXCEPT !.d = 100])>>))>>))>>)),
              Entry(<<"n">>, Num(1))>>))>>)>>)
    /\ HasKey(Get(Get(Get(simplified, KeyPassiveOut), KeyParam), <<"a">>), KeyMain)

-----------------------------------------------------------------------------
(* main() of src/src/index.ts: the skip-existing batch run *)

MaxKeys == 3

\* Character keys as the index carries them, and what an index entry may be.
IndexKeys == <<<<"1","0","1","1">>, <<"1","0","2","1">>, <<"k">>, <<"1","0","3","1">>, <<"9">>>>
IndexEntries ==
    {IndexEntryOf("code", Str(<<"A">>)), IndexEntryOf("code", Str(<<" ", "a", ":">>)),
     IndexEntryOf("CodeName", Undefined), Null}

\* The index payloads of at most MaxKeys characters, the keys in any textual order.
Indexes ==
    UNION {{ObjOf([j \in 1..n |-> Entry(IndexKeys[n + 1 - j], en[j])]) :
               en \in [1..n -> IndexEntries]} : n \in 0..MaxKeys}

\* Object.keys(characterIndex)
ObjectKeys(o) == [j \in 1..Len(o.e) |-> o.e[j].k]

\* const outputName = getIndexFileName(key, indexEntry ?? {})
OutputNameAt(j) ==
    getIndexFileName(ObjectKeys(characterIndex)[j],
                     Coalesce(characterIndex.e[j].v, Obj(<<>>)))
OutputName == OutputNameAt(i)

FileNames(fs) == {f.name : f \in fs}

\* fileExists answering false whatever is on disk.
fileExistsNever(name) == FALSE

\* fileExists(destination): access() resolves exactly when the file is there.
fileExists(name) == name \in FileNames(files)

\* The detail record the detail endpoint serves for the key at position j.
ServedDetail(j) ==
    ObjOf(Present(<<Entry(KeyId, Str(ObjectKeys(characterIndex)[j])),
                    Entry(KeyCodeName,
                          Coalesce(Get(characterIndex.e[j].v, KeyCodeName),
                                   Get(characterIndex.e[j].v, KeyCode)))>>))

Init ==
    /\ characterIndex \in Indexes
    /\ files \in {{[name |-> nm, data |-> Null] : nm \in ns} :
                     ns \in SUBSET {<<"a">>, <<"1","0","2","1">>}}
    /\ files0 = files
    /\ pc = "fetchIndex"
    /\ i = 0 /\ fetchedCount = 0 /\ skippedCount = 0 /\ exitCode = 0
    /\ thrown = <<>> /\ fetchLog = <<>> /\ writeLog = <<>>
    /\ ran = {}
    /\ IdleName /\ IdleStat /\ IdleNorm /\ IdleChar

\* An awaited call rejects: control passes to the catch block of main.
Throws(step) ==
    /\ thrown' = Append(thrown, step)
    /\ pc' = "catch"

\* const characterIndex = await fetchJson(CHARACTER_INDEX_URL)
FetchIndex ==
    /\ pc = "fetchIndex"
    /\ pc' = "ensureDirectory"
    /\ UNCHANGED <<characterIndex, files, files0, i, fetchedCount, skippedCount, exitCode,
                   thrown, fetchLog, writeLog, ran, nameVars, statVars, normVars, charVars>>

FetchIndexThrows ==
    /\ pc = "fetchIndex"
    /\ Throws("fetchIndex")
    /\ UNCHANGED <<characterIndex, files, files0, i, fetchedCount, skippedCount, exitCode,
                   fetchLog, writeLog, ran, nameVars, statVars, normVars, charVars>>

\* await ensureDirectory(OUTPUT_DIR); let fetchedCount = 0; let skippedCount = 0
EnsureOutputDir ==
    /\ pc = "ensureDirectory"
    /\ pc' = "loop"
    /\ i' = 1 /\ fetchedCount' = 0 /\ skippedCount' = 0
    /\ UNCHANGED <<characterIndex, files, files0, exitCode, thrown, fetchLog, writeLog,
                   ran, nameVars, statVars, normVars, charVars>>

EnsureOutputDirThrows ==
    /\ pc = "ensureDirectory"
    /\ Throws("ensureDirectory")
    /\ UNCHANGED <<characterIndex, files, files0, i, fetchedCount, skippedCount, exitCode,
                   fetchLog, writeLog, ran, nameVars, statVars, normVars, charVars>>

\* The head of the loop body for the next key: the file is there, the key is
\* counted as skipped.
SkipExisting ==
    /\ pc = "loop" /\ i <= Len(characterIndex.e)
    /\ fileExists(OutputName)
    /\ skippedCount' = skippedCount + 1
    /\ i' = i + 1
    /\ UNCHANGED <<characterIndex, files, files0, pc, fetchedCount, exitCode, thrown,
                   fetchLog, writeLog, ran, nameVars, statVars, normVars, charVars>>

\* The head of the loop body for the next key: the file is not there, the
\* detail is requested.
RequestDetail ==
    /\ pc = "loop" /\ i <= Len(characterIndex.e)
    /\ ~fileExists(OutputName)
    /\ fetchLog' = Append(fetchLog, ObjectKeys(characterIndex)[i])
    /\ pc' = "fetchDetail"
    /\ UNCHANGED <<characterIndex, files, files0, i, fetchedCount, skippedCount, exitCode,
                   thrown, writeLog, ran, nameVars, statVars, normVars, charVars>>

\* const detail = await fetchJson(detailUrl); const simplified = simplifyCharacter(detail);
\* then saveSimplified up to its first await
FetchDetail ==
    /\ pc = "fetchDetail"
    /\ detail' = ServedDetail(i)
    /\ simplified' = simplifyCharacter(ServedDetail(i))
    /\ pc' = "saveEnsureOutputDir"
    /\ UNCHANGED <<characterIndex, files, files0, i, fetchedCount, skippedCount, exitCode,
                   thrown, fetchLog, writeLog, ran, nameVars, statVars, normVars>>

\* A failed detail fetch that is recorded and passed over: the loop goes on.
FetchDetailThrowsIsolated ==
    /\ pc = "fetchDetail"
    /\ thrown' = Append(thrown, "fetchDetail")
    /\ pc' = "loop"
    /\ i' = i + 1
    /\ UNCHANGED <<characterIndex, files, files0, fetchedCount, skippedCount, exitCode,
                   fetchLog, writeLog, ran, nameVars, statVars, normVars, charVars>>

FetchDetailThrows ==
    /\ pc = "fetchDetail"
    /\ Throws("fetchDetail")
    /\ UNCHANGED <<characterIndex, files, files0, i, fetchedCount, skippedCount, exitCode,
                   fetchLog, writeLog, ran, nameVars, statVars, normVars, charVars>>

\* saveSimplified: await ensureDirectory(OUTPUT_DIR)
SaveEnsureOutputDir ==
    /\ pc = "saveEnsureOutputDir"
    /\ pc' = "saveEnsureParentDir"
    /\ UNCHANGED <<characterIndex, files, files0, i, fetchedCount, skippedCount, exitCode,
                   thrown, fetchLog, writeLog, ran, nameVars, statVars, normVars, charVars>>

\* saveSimplified: await ensureDirectory(dirname(destination))
SaveEnsureParentDir ==
    /\ pc = "saveEnsureParentDir"
    /\ pc' = "writeFile"
    /\ UNCHANGED <<characterIndex, files, files0, i, fetchedCount, skippedCount, exitCode,
                   thrown, fetchLog, writeLog, ran, nameVars, statVars, normVars, charVars>>

SaveEnsureDirThrows ==
    /\ pc \in {"saveEnsureOutputDir", "saveEnsureParentDir"}
    /\ Throws(pc)
    /\ UNCHANGED <<characterIndex, files, files0, i, fetchedCount, skippedCount, exitCode,
                   fetchLog, writeLog, ran, nameVars, statVars, normVars, charVars>>

\* The files after writeFile(destination, data) has resolved.
Written(fs, name, data) ==
    {f \in fs : f.name # name} \cup {[name |-> name, data |-> data]}

\* saveSimplified: await writeFile(destination, JSON.stringify(data, null, 2) + "\n");
\* fetchedCount += 1
WriteFile ==
    /\ pc = "writeFile"
    /\ files' = Written(files, OutputName, Serialized(simplified))
    /\ writeLog' = Append(writeLog, OutputName)
    /\ fetchedCount' = fetchedCount + 1
    /\ i' = i + 1
    /\ pc' = "loop"
    /\ UNCHANGED <<characterIndex, files0, skippedCount, exitCode, thrown, fetchLog,
                   ran, nameVars, statVars, normVars, charVars>>

\* writeFile rejects: nothing was written, or a truncated file was left.
WriteFileThrows ==
    /\ pc = "writeFile"
    /\ Throws("writeFile")
    /\ files' \in {files, Written(files, OutputName, Null)}
    /\ UNCHANGED <<characterIndex, files0, i, fetchedCount, skippedCount, exitCode,
                   fetchLog, writeLog, ran, nameVars, statVars, normVars, charVars>>

\* The loop is over: console.log(saved ..., skipped ...)
LogSummary ==
    /\ pc = "loop" /\ i > Len(characterIndex.e)
    /\ pc' = "done"
    /\ UNCHANGED <<characterIndex, files, files0, i, fetchedCount, skippedCount, exitCode,
                   thrown, fetchLog, writeLog, ran, nameVars, statVars, normVars, charVars>>

\* catch (error) { console.error(...); process.exitCode = 1 }
Catch ==
    /\ pc = "catch"
    /\ exitCode' = 1
    /\ pc' = "done"
    /\ UNCHANGED <<characterIndex, files, files0, i, fetchedCount, skippedCount,
                   thrown, fetchLog, writeLog, ran, nameVars, statVars, normVars, charVars>>

Next ==
    \/ FetchIndex \/ FetchIndexThrows
    \/ EnsureOutputDir \/ EnsureOutputDirThrows
    \/ SkipExisting \/ RequestDetail
    \/ FetchDetail \/ FetchDetailThrows
    \/ SaveEnsureOutputDir \/ SaveEnsureParentDir \/ SaveEnsureDirThrows
    \/ WriteFile \/ WriteFileThrows
    \/ LogSummary
    \/ Catch

Spec == Init /\ [][Next]_vars

InLoop == pc \in {"loop", "fetchDetail", "saveEnsureOutputDir", "saveEnsureParentDir", "writeFile"}
MidIteration == pc \in {"fetchDetail", "saveEnsureOutputDir", "saveEnsureParentDir", "writeFile"}
IndexKeyList == ObjectKeys(characterIndex)
PositionOf(k) == CHOOSE j \in 1..Len(IndexKeyList) : IndexKeyList[j] = k
Fetched(j) == \E q \in 1..Len(fetchLog) : fetchLog[q] = IndexKeyList[j]
Distinct(seq) == \A a, b \in 1..Len(seq) : a # b => seq[a] # seq[b]

\* C8: the keys are taken in index order; at most one step throws; once a step
\* has thrown nothing more is fetched or written and the files stay as they are;
\* no file is ever removed or rewritten; the run ends with exit status 1 when a
\* step threw and 0 when none did.
C8_FirstFailureAborts ==
    /\ [](/\ Len(thrown) <= 1
          /\ exitCode \in {0, 1}
          /\ exitCode = 1 => pc = "done"
          /\ pc = "done" => (exitCode = 0 <=> thrown = <<>>)
          /\ \A a, b \in 1..Len(fetchLog) :
                a < b => PositionOf(fetchLog[a]) < PositionOf(fetchLog[b])
          /\ \A a \in 1..Len(fetchLog) : PositionOf(fetchLog[a]) <= i)
    /\ [][thrown # <<>> =>
            /\ fetchLog' = fetchLog /\ writeLog' = writeLog
            /\ files' = files /\ i' = i]_vars
    /\ [][files \subseteq files']_vars

\* A run whose second detail fetch failed: the first file is in place, the third
\* key was never requested.
C8_Witness ==
    /\ pc = "done" /\ exitCode = 1
    /\ thrown = <<"fetchDetail">>
    /\ Len(IndexKeyList) = 3
    /\ fetchLog = <<IndexKeyList[1], IndexKeyList[2]>>
    /\ writeLog = <<OutputNameAt(1)>>
    /\ FileNames(files) = FileNames(files0) \cup {OutputNameAt(1)}

\* C10: in the loop fetchedCount + skippedCount is the number of keys processed;
\* a processed key was either skipped, its file being there, with no fetch and
\* no write, or fetched and written once; no file that was there is written;
\* of two keys with one output name at most the first is fetched; a run that
\* succeeds ends with fetchedCount + skippedCount the number of index keys.
C10_SkipExisting ==
    /\ InLoop => fetchedCount + skippedCount = i - 1
    /\ fetchedCount = Len(writeLog)
    /\ Distinct(fetchLog) /\ Distinct(writeLog)
    /\ \A q \in 1..Len(writeLog) : writeLog[q] \notin FileNames(files0)
    /\ files0 \subseteq files
    /\ MidIteration => OutputName \notin FileNames(files)
    /\ InLoop =>
          /\ \A j \in 1..(i - 1) :
                IF Fetched(j)
                THEN /\ Cardinality({q \in 1..Len(writeLog) : writeLog[q] = OutputNameAt(j)}) = 1
                     /\ OutputNameAt(j) \notin FileNames(files0)
                ELSE /\ OutputNameAt(j) \in FileNames(files)
                     /\ \/ OutputNameAt(j) \in FileNames(files0)
                        \/ \E h \in 1..(j - 1) :
                              Fetched(h) /\ OutputNameAt(h) = OutputNameAt(j)
          /\ skippedCount = Cardinality({j \in 1..(i - 1) : ~Fetched(j)})
    /\ \A j, h \in 1..Len(IndexKeyList) :
          (j < h /\ OutputNameAt(j) = OutputNameAt(h)) => ~Fetched(h)
    /\ (pc = "done" /\ exitCode = 0) =>
          fetchedCount + skippedCount = Len(IndexKeyList)

\* A run that succeeded on two keys with one output name: one write, one skip.
C10_Witness ==
    /\ pc = "done" /\ exitCode = 0
    /\ Len(IndexKeyList) = 2
    /\ OutputNameAt(1) = <<"a">> /\ OutputNameAt(2) = <<"a">>
    /\ files0 = {}
    /\ writeLog = <<<<"a">>>>
    /\ fetchedCount = 1 /\ skippedCount = 1

====
